---- MODULE Spec2Model ----
(***************************************************************************)
(* Model of main.py: the EDI field-reference parsers (parse_field_code,    *)
(* parse_edi_field), the input loaders of main(), and the batch driver     *)
(* process_search_items that drives Notepad++.                             *)
(*                                                                         *)
(* Python strings are TLA+ strings; a character is a string of length 1.   *)
(* Python's None is the value None below.                                  *)
(***************************************************************************)
EXTENDS Integers, Sequences, FiniteSets, TLC

VARIABLES
    \* a parser run
    field,          \* the raw reference handed to a parser
    parts,          \* how that reference was composed: [loop, tag, elem, sq, tail]
    called,         \* "none", "parse_edi_field" or "parse_field_code"
    ret,            \* what the called parser returned (parse_edi_field: with its locals)
    \* a run of main(): the command line and the files it names
    mode,           \* "word", "list", "txt" or "excel"
    rows,           \* the raw input rows, each [name, ref]
    preview,        \* --preview
    doc,            \* the text of the file opened in Notepad++
    \* main() and process_search_items
    pc,             \* the statement about to run
    items,          \* list of (screenshot_name, field_code, search_term)
    item_i,         \* i, the loop index of process_search_items (1-based)
    found,          \* what search_and_highlight returned for the current item
    screenshots,    \* the screenshots list
    not_found,      \* the not_found list
    was_quit,
    exc,            \* the exception propagating, None when there is none
    returned,       \* what process_search_items returned, None before it returns
    exit_code,      \* what main() returned, None while it runs
    \* the desktop
    NOTEPAD_HWND,   \* the global window handle
    notepadRunning, \* Notepad++ is open
    findDialog,     \* its Find dialog is open
    caret,          \* index in doc of the line the caret is on (0: top of file)
    keyQ,           \* a 'q' keypress waits in the console buffer
    failsafe        \* the mouse is in a screen corner (pyautogui.FAILSAFE)

parserVars == <<field, parts, called, ret>>
inputVars == <<mode, rows, preview, doc>>
batchVars == <<pc, items, item_i, found, screenshots, not_found, was_quit, exc,
               returned, exit_code>>
desktopVars == <<NOTEPAD_HWND, notepadRunning, findDialog, caret, keyQ, failsafe>>
vars == <<parserVars, inputVars, batchVars, desktopVars>>

None == "<None>"

(***************************************************************************)
(* Character classes and the str methods the parsers use.                  *)
(***************************************************************************)
DigitChars == {"0", "1", "2", "3", "4", "5", "6", "7", "8", "9"}
UpperChars == {"A", "B", "C", "D", "E", "F", "G", "H", "I", "J", "K", "L", "M",
               "N", "O", "P", "Q", "R", "S", "T", "U", "V", "W", "X", "Y", "Z"}
LowerChars == {"a", "b", "c", "d", "e", "f", "g", "h", "i", "j", "k", "l", "m",
               "n", "o", "p", "q", "r", "s", "t", "u", "v", "w", "x", "y", "z"}
AlphaChars == UpperChars \cup LowerChars
AlphaSlashChars == AlphaChars \cup {"/"}
SpaceChars == {" ", "\t", "\n", "\r"}

\* s[i-1:i]: the character at 1-based index i, "" outside the string
Ch(s, i) == IF 1 <= i /\ i <= Len(s) THEN SubSeq(s, i, i) ELSE ""

MinOf(S) == CHOOSE x \in S : \A y \in S : x <= y
MaxOf(S) == CHOOSE x \in S : \A y \in S : x >= y

\* str.upper() on one character
UpperCh(c) ==
    CASE c = "a" -> "A" [] c = "b" -> "B" [] c = "c" -> "C" [] c = "d" -> "D"
      [] c = "e" -> "E" [] c = "f" -> "F" [] c = "g" -> "G" [] c = "h" -> "H"
      [] c = "i" -> "I" [] c = "j" -> "J" [] c = "k" -> "K" [] c = "l" -> "L"
      [] c = "m" -> "M" [] c = "n" -> "N" [] c = "o" -> "O" [] c = "p" -> "P"
      [] c = "q" -> "Q" [] c = "r" -> "R" [] c = "s" -> "S" [] c = "t" -> "T"
      [] c = "u" -> "U" [] c = "v" -> "V" [] c = "w" -> "W" [] c = "x" -> "X"
      [] c = "y" -> "Y" [] c = "z" -> "Z" [] OTHER -> c

\* str.lower() on one character
LowerCh(c) ==
    CASE c = "A" -> "a" [] c = "B" -> "b" [] c = "C" -> "c" [] c = "D" -> "d"
      [] c = "E" -> "e" [] c = "F" -> "f" [] c = "G" -> "g" [] c = "H" -> "h"
      [] c = "I" -> "i" [] c = "J" -> "j" [] c = "K" -> "k" [] c = "L" -> "l"
      [] c = "M" -> "m" [] c = "N" -> "n" [] c = "O" -> "o" [] c = "P" -> "p"
      [] c = "Q" -> "q" [] c = "R" -> "r" [] c = "S" -> "s" [] c = "T" -> "t"
      [] c = "U" -> "u" [] c = "V" -> "v" [] c = "W" -> "w" [] c = "X" -> "x"
      [] c = "Y" -> "y" [] c = "Z" -> "z" [] OTHER -> c

RECURSIVE str_upper(_)
str_upper(s) ==
    IF Len(s) = 0 THEN "" ELSE UpperCh(Ch(s, 1)) \o str_upper(SubSeq(s, 2, Len(s)))

RECURSIVE str_lower(_)
str_lower(s) ==
    IF Len(s) = 0 THEN "" ELSE LowerCh(Ch(s, 1)) \o str_lower(SubSeq(s, 2, Len(s)))

\* str.strip(): drop leading and trailing whitespace
str_strip(s) ==
    LET keep == {i \in 1..Len(s) : Ch(s, i) \notin SpaceChars}
    IN  IF keep = {} THEN "" ELSE SubSeq(s, MinOf(keep), MaxOf(keep))

\* the indices at which sub occurs in s
Occurrences(sub, s) ==
    {i \in 1..(Len(s) - Len(sub) + 1) : SubSeq(s, i, i + Len(sub) - 1) = sub}

\* str.find(sub): 1-based index of the first occurrence, 0 when absent (Python: -1)
str_find(s, sub) ==
    LET occ == Occurrences(sub, s) IN IF occ = {} THEN 0 ELSE MinOf(occ)

\* str.rfind(sub): 1-based index of the last occurrence, 0 when absent
str_rfind(s, sub) ==
    LET occ == Occurrences(sub, s) IN IF occ = {} THEN 0 ELSE MaxOf(occ)

\* Python's "sub in s"
In(sub, s) == Occurrences(sub, s) # {}

str_startswith(s, prefix) ==
    Len(prefix) <= Len(s) /\ SubSeq(s, 1, Len(prefix)) = prefix

\* str.split(sep): the sequence of pieces (sep is not empty)
RECURSIVE str_split(_, _)
str_split(s, sep) ==
    LET i == str_find(s, sep)
    IN  IF i = 0 THEN <<s>>
        ELSE <<SubSeq(s, 1, i - 1)>> \o str_split(SubSeq(s, i + Len(sep), Len(s)), sep)

\* the length of the longest run of characters of class cls that starts at s[i]
RunLen(s, i, cls) ==
    LET stops == {j \in i..Len(s) : Ch(s, j) \notin cls}
    IN  IF i > Len(s) THEN 0
        ELSE IF stops = {} THEN Len(s) - i + 1 ELSE MinOf(stops) - i

AllIn(s, cls) == \A i \in 1..Len(s) : Ch(s, i) \in cls

Falsy(x) == x = None \/ x = ""

\* a for loop that stops at its first hit: the least of the indices that hit,
\* 0 when none does
FirstIndex(hits) == IF hits = {} THEN 0 ELSE MinOf(hits)

(***************************************************************************)
(* parse_field_code                                                        *)
(***************************************************************************)
NUMBERED_SEGMENTS ==
    <<"NM1", "N1", "N2", "N3", "N4", "SV1", "SV2", "SV3", "SV4", "SV5",
      "HI", "HL", "K3", "G1", "G2", "G3", "LX", "SE", "ST", "GS", "GE",
      "ISA", "IEA", "TA1">>

\* re.match(r'^(\d+)-(\d+)$', rest): <<group 1, group 2>>, or <<>> for no match
re_element_sub(rest) ==
    LET d == RunLen(rest, 1, DigitChars)
    IN  IF /\ d >= 1
           /\ Len(rest) >= d + 2
           /\ Ch(rest, d + 1) = "-"
           /\ AllIn(SubSeq(rest, d + 2, Len(rest)), DigitChars)
        THEN <<SubSeq(rest, 1, d), SubSeq(rest, d + 2, Len(rest))>>
        ELSE <<>>

\* re.match(r'^(\d+)$', rest): <<group 1>>, or <<>> for no match
re_element(rest) ==
    IF Len(rest) >= 1 /\ AllIn(rest, DigitChars) THEN <<rest>> ELSE <<>>

\* the tuple a matching tag of the field code gives: (seg, element, sub, seg*)
field_code_of(seg, rest) ==
    LET es == re_element_sub(rest)
        e  == re_element(rest)
    IN  IF es # <<>>
        THEN [segment |-> seg, element_num |-> es[1], sub_element |-> es[2],
              search_term |-> seg \o "*"]
        ELSE [segment |-> seg, element_num |-> e[1], sub_element |-> None,
              search_term |-> seg \o "*"]

parse_field_code(arg) ==
    LET field_code == str_upper(str_strip(arg))
        restOf(seg) == SubSeq(field_code, Len(seg) + 1, Len(field_code))
        \* Pattern 1: the first known numbered segment the code starts with,
        \* followed by element or element-subelement
        Known(seg) == /\ str_startswith(field_code, seg)
                      /\ \/ re_element_sub(restOf(seg)) # <<>>
                         \/ re_element(restOf(seg)) # <<>>
        k == FirstIndex({n \in 1..Len(NUMBERED_SEGMENTS) : Known(NUMBERED_SEGMENTS[n])})
        \* Patterns 2 and 3: letters, then element-subelement or element
        a == RunLen(field_code, 1, AlphaChars)
        letters == SubSeq(field_code, 1, a)
        tail == SubSeq(field_code, a + 1, Len(field_code))
    IN  IF k # 0
        THEN field_code_of(NUMBERED_SEGMENTS[k], restOf(NUMBERED_SEGMENTS[k]))
        ELSE IF a >= 1 /\ (re_element_sub(tail) # <<>> \/ re_element(tail) # <<>>)
        THEN field_code_of(letters, tail)
        ELSE \* Fallback: use as-is for search
             [segment |-> field_code, element_num |-> "", sub_element |-> None,
              search_term |-> field_code \o "*"]

(***************************************************************************)
(* parse_edi_field, in the order of its steps                              *)
(***************************************************************************)
NUMBERED_SEGMENTS_3 == <<"NM1", "SV1", "SV2", "SV3", "SV4", "SV5", "TA1", "CL1">>

SEGMENTS_2 ==
    <<"N1", "N2", "N3", "N4", "HI", "HL", "K3", "G1", "G2", "G3", "LX", "SE",
      "ST", "GS", "GE">>

SEGMENTS_3 ==
    <<"CLM", "BHT", "DTP", "REF", "AMT", "QTY", "DMG", "PAT", "SBR", "CAS", "OI",
      "MOA", "LIN", "CTP", "PRV", "CN1", "PWK", "CR1", "CR2", "CR3", "CR5", "CR6",
      "CRC", "HCP", "TST", "MEA", "PER">>

\* lines 133-135: a combined field "A + B" keeps its first member
first_of_combined(edi_field) ==
    IF In(" + ", edi_field)
    THEN str_strip(str_split(edi_field, " + ")[1])
    ELSE edi_field

\* re.search(r' -([A-Za-z/]+)', s): group 1 of the leftmost match, None for no match
re_dash_qualifier(s) ==
    LET at == {i \in Occurrences(" -", s) : RunLen(s, i + 2, AlphaSlashChars) >= 1}
    IN  IF at = {} THEN None
        ELSE SubSeq(s, MinOf(at) + 2,
                    MinOf(at) + 1 + RunLen(s, MinOf(at) + 2, AlphaSlashChars))

\* lines 137-158: the qualifier after " -- ", " - " or " -"
extract_qualifier(edi_field) ==
    IF In(" -- ", edi_field)
    THEN LET ps == str_split(edi_field, " -- ")
         IN  [edi_field |-> str_strip(ps[1]), qualifier |-> str_strip(ps[2]),
              qualifier_type |-> "double_dash"]
    ELSE IF In(" - ", edi_field)
    THEN LET ps == str_split(edi_field, " - ")
         IN  [edi_field |-> str_strip(ps[1]), qualifier |-> str_strip(ps[2]),
              qualifier_type |-> "dash"]
    ELSE IF In(" -", edi_field) /\ re_dash_qualifier(edi_field) # None
    THEN [edi_field |-> str_strip(SubSeq(edi_field, 1, str_find(edi_field, " -") - 1)),
          qualifier |-> str_strip(re_dash_qualifier(edi_field)),
          qualifier_type |-> "dash"]
    ELSE [edi_field |-> edi_field, qualifier |-> None, qualifier_type |-> None]

\* re.search(r'HI(\d+)-(\d+)-([A-Za-z/]+)$', s, re.IGNORECASE): group 3 of the
\* leftmost match, None for no match
re_hi_attached(s) ==
    LET Matches(i) ==
            LET d1 == RunLen(s, i + 2, DigitChars)
                d2 == RunLen(s, i + 3 + d1, DigitChars)
                q  == i + 4 + d1 + d2
            IN  /\ d1 >= 1
                /\ Ch(s, i + 2 + d1) = "-"
                /\ d2 >= 1
                /\ Ch(s, i + 3 + d1 + d2) = "-"
                /\ q <= Len(s)
                /\ AllIn(SubSeq(s, q, Len(s)), AlphaSlashChars)
        at == {i \in Occurrences("HI", str_upper(s)) : Matches(i)}
        i0 == MinOf(at)
        e1 == RunLen(s, i0 + 2, DigitChars)
        e2 == RunLen(s, i0 + 3 + e1, DigitChars)
    IN  IF at = {} THEN None ELSE SubSeq(s, i0 + 4 + e1 + e2, Len(s))

\* lines 160-167: an HI qualifier attached without a space (HI01-2-ABJ/BJ)
extract_hi_attached(q) ==
    IF /\ Falsy(q.qualifier)
       /\ In("HI", str_upper(q.edi_field))
       /\ re_hi_attached(q.edi_field) # None
    THEN LET qualifier == re_hi_attached(q.edi_field)
         IN  [edi_field |-> SubSeq(q.edi_field, 1,
                                   str_rfind(q.edi_field, "-" \o qualifier) - 1),
              qualifier |-> qualifier, qualifier_type |-> "attached"]
    ELSE q

\* extract_loop_id with the pattern ^(\d{4}[A-Z]?): one loop letter, not two
extract_loop_id_one_letter(edi_field) ==
    LET u == str_upper(edi_field)
        a == RunLen(u, 5, UpperChars)
    IN  IF RunLen(u, 1, DigitChars) >= 4
        THEN SubSeq(u, 1, 4 + (IF a > 1 THEN 1 ELSE a))
        ELSE None

\* lines 169-173: re.match(r'^(\d{4}[A-Z]{0,2})', edi_field.upper())
extract_loop_id(edi_field) ==
    LET u == str_upper(edi_field)
        a == RunLen(u, 5, UpperChars)
    IN  IF RunLen(u, 1, DigitChars) >= 4
        THEN SubSeq(u, 1, 4 + (IF a > 2 THEN 2 ELSE a))
        ELSE None
\* line 211: re.match(r'^([A-Za-z]+\d?)(\d+)(?:-\d+)?$', s): group 1, None for no
\* match. The optional digit of group 1 is taken whenever two digits follow the letters.
re_simple_format(s) ==
    LET a == RunLen(s, 1, AlphaChars)
        d == RunLen(s, a + 1, DigitChars)
        after == SubSeq(s, a + d + 1, Len(s))
    IN  IF /\ a >= 1
           /\ d >= 1
           /\ \/ after = ""
              \/ /\ Len(after) >= 2
                 /\ Ch(after, 1) = "-"
                 /\ AllIn(SubSeq(after, 2, Len(after)), DigitChars)
        THEN SubSeq(s, 1, a + (IF d >= 2 THEN 1 ELSE 0))
        ELSE None

\* line 217: re.match(r'^(\d*)([A-Za-z]+\d?)([A-Za-z]*)(\d+)', s): group 2 followed
\* by group 3, None for no match
re_alpha_prefix(s) ==
    LET d0 == RunLen(s, 1, DigitChars)
        a  == RunLen(s, d0 + 1, AlphaChars)
        p  == d0 + a + 1
        k  == RunLen(s, p, DigitChars)
        b  == RunLen(s, p + 1, AlphaChars)
    IN  IF a = 0 \/ k = 0 THEN None
        ELSE IF k >= 2 THEN SubSeq(s, d0 + 1, p)
        ELSE IF RunLen(s, p + 1 + b, DigitChars) >= 1 THEN SubSeq(s, d0 + 1, p + b)
        ELSE SubSeq(s, d0 + 1, p - 1)

\* lines 175-233: the segment of the field text
find_segment(edi_field) ==
    LET u == str_upper(edi_field)
        Inside(seg) == In(seg, u)
        \* a 2-character tag counts at its first occurrence, when a digit follows it
        DigitAfter(seg) ==
            LET idx == str_find(u, seg)
            IN  idx # 0 /\ Ch(edi_field, idx + Len(seg)) \in DigitChars
        n3 == FirstIndex({n \in 1..Len(NUMBERED_SEGMENTS_3) : Inside(NUMBERED_SEGMENTS_3[n])})
        s3 == FirstIndex({n \in 1..Len(SEGMENTS_3) : Inside(SEGMENTS_3[n])})
        s2 == FirstIndex({n \in 1..Len(SEGMENTS_2) : DigitAfter(SEGMENTS_2[n])})
        simple == re_simple_format(edi_field)
        prefix == re_alpha_prefix(edi_field)
        seg_candidate == str_upper(prefix)
        InCandidate(seg) == In(seg, seg_candidate)
        known3 == NUMBERED_SEGMENTS_3 \o SEGMENTS_3
        c3 == FirstIndex({n \in 1..Len(known3) : InCandidate(known3[n])})
        c2 == FirstIndex({n \in 1..Len(SEGMENTS_2) : InCandidate(SEGMENTS_2[n])})
    IN  IF n3 # 0 THEN NUMBERED_SEGMENTS_3[n3]
        ELSE IF s3 # 0 THEN SEGMENTS_3[s3]
        ELSE IF s2 # 0 THEN SEGMENTS_2[s2]
        ELSE IF simple # None THEN str_upper(simple)
        ELSE IF prefix # None /\ c3 # 0 THEN known3[c3]
        ELSE IF prefix # None /\ c2 # 0 THEN SEGMENTS_2[c2]
        ELSE parse_field_code(edi_field).segment

\* re.match(r'(\d+)', qualifier): group 1, None for no match
re_leading_digits(qualifier) ==
    LET d == RunLen(qualifier, 1, DigitChars)
    IN  IF d >= 1 THEN SubSeq(qualifier, 1, d) ELSE None

\* lines 240-268: NM1 takes its entity identifier from the loop
nm1_search_term(loop_id) ==
    IF Falsy(loop_id) THEN "NM1*"
    ELSE IF In("2010AA", loop_id) THEN "NM1*85*"
    ELSE IF In("2010AB", loop_id) THEN "NM1*87*"
    ELSE IF In("2010AC", loop_id) THEN "NM1*PE*"
    ELSE IF In("2010BA", loop_id) THEN "NM1*IL*"
    ELSE IF In("2010BB", loop_id) THEN "NM1*PR*"
    ELSE IF In("2010CA", loop_id) THEN "NM1*QC*"
    ELSE IF In("2310A", loop_id) THEN "NM1*DN*"
    ELSE IF In("2310B", loop_id) THEN "NM1*82*"
    ELSE IF In("2310C", loop_id) THEN "NM1*77*"
    ELSE IF In("2310D", loop_id) THEN "NM1*DQ*"
    ELSE IF In("2330", loop_id) THEN "NM1*"
    ELSE IF In("2420", loop_id) THEN "NM1*82*"
    ELSE "NM1*"

\* hi_search_term with split('/')[0]: the first piece, not the last
hi_search_term_first_piece(qualifier) ==
    IF Falsy(qualifier) THEN "HI*"
    ELSE IF In("/", qualifier)
    THEN "HI*" \o str_strip(str_split(qualifier, "/")[1])
    ELSE "HI*" \o qualifier

\* lines 270-279: HI takes the last "/" piece of the qualifier
hi_search_term(qualifier) ==
    IF Falsy(qualifier) THEN "HI*"
    ELSE IF In("/", qualifier)
    THEN LET ps == str_split(qualifier, "/") IN "HI*" \o str_strip(ps[Len(ps)])
    ELSE "HI*" \o qualifier

\* lines 281-294: DTP takes the date qualifier, and RD8 for a date range
dtp_search_term(qualifier) ==
    IF Falsy(qualifier) THEN "DTP*"
    ELSE IF In("RD8", str_upper(qualifier))
    THEN IF re_leading_digits(qualifier) # None
         THEN "DTP*" \o re_leading_digits(qualifier) \o "*RD8"
         ELSE "DTP*"
    ELSE IF re_leading_digits(qualifier) # None
         THEN "DTP*" \o re_leading_digits(qualifier) \o "*"
         ELSE "DTP*"

\* ref_search_term without the loop test: REF*EI* in every loop
ref_search_term_any_loop(loop_id) ==
    IF ~Falsy(loop_id) THEN "REF*EI*" ELSE "REF*"

\* lines 296-303
ref_search_term(loop_id) ==
    IF ~Falsy(loop_id) /\ In("2010AA", loop_id) THEN "REF*EI*" ELSE "REF*"

\* lines 305-309
lin_search_term(qualifier) ==
    IF ~Falsy(qualifier) /\ In("N4", str_upper(qualifier)) THEN "LIN**N4*" ELSE "LIN*"

\* lines 235-352: the search term of a segment in its loop and qualifier context
build_search_term(segment, loop_id, qualifier) ==
    CASE segment = "NM1" -> nm1_search_term(loop_id)
      [] segment = "HI"  -> hi_search_term(qualifier)
      [] segment = "DTP" -> dtp_search_term(qualifier)
      [] segment = "REF" -> ref_search_term(loop_id)
      [] segment = "LIN" -> lin_search_term(qualifier)
      [] OTHER -> segment \o "*"

\* lines 137-167: the qualifier-extraction step, the " -- ", " - ", " -XX" rules
\* and then the attached-HI rule
extract_qualifiers(edi_field) == extract_hi_attached(extract_qualifier(edi_field))

\* the locals of parse_edi_field when it returns, and search_term, its result
edi_locals(arg) ==
    LET original_field == str_strip(arg)
        q == extract_qualifiers(first_of_combined(original_field))
        loop_id == extract_loop_id(q.edi_field)
        segment == find_segment(q.edi_field)
    IN  [edi_field |-> q.edi_field, qualifier |-> q.qualifier,
         qualifier_type |-> q.qualifier_type, loop_id |-> loop_id,
         segment |-> segment,
         search_term |-> build_search_term(segment, loop_id, q.qualifier)]

parse_edi_field(arg) == edi_locals(arg).search_term
(***************************************************************************)
(* Parser runs: a reference is composed of a loop id, a segment tag, an    *)
(* element (with optional sub-element), a qualifier behind a separator,    *)
(* and a tail (an annotation or a further member of a combined field).     *)
(* One of the two parsers is then called on it.                            *)
(***************************************************************************)
MaxElement == 3
MaxSub == 2

DigitStr(n) == SubSeq("0123456789", n + 1, n + 1)
TwoDigits(n) == DigitStr((n \div 10) % 10) \o DigitStr(n % 10)

Elements ==
    {""} \cup {TwoDigits(e) : e \in 1..MaxElement}
         \cup {TwoDigits(e) \o "-" \o DigitStr(b) : e \in 1..MaxElement, b \in 1..MaxSub}

Loops ==
    {"", "2010AA", "2010AB", "2010AC", "2010BA", "2010BB", "2010CA", "2310A",
     "2310B", "2310C", "2310D", "2330", "2420", "2300", "2400", "2410",
     "2010aa", "2420A", "2320"}

Tags ==
    {"", "NM1", "SV1", "SV2", "SV3", "SV4", "SV5", "ISA", "IEA", "TA1", "CL1",
     "HI", "hi", "HL", "N3", "N4", "LX", "DTP", "REF", "LIN", "BHT", "CLM",
     "PLB", "CLP"}

Separators == {" -- ", " - ", " -", "-"}

Qualifiers ==
    {"BK/ABK", "BK / ABK", "ABJ/BJ", "BK/", "BG", "DR", "434", "300 RD8", "RD8",
     "435 rd8", "N4", "n4"}

AnnotationTails ==
    {" (primary)", " (see NM1)", " when HI01-2 present", " WHEN REF02 = EI"}

CombinedTails == {" + 2300NM109", "+2300NM109", " + 2300CLM05-3", "+HI01-2"}

\* a second qualifier behind the first
SecondQualifierTails == {" -- BK", " - 434", " -BG"}

NoQualifier == [sep : {""}, qual : {""}]
AnyQualifier == [sep : Separators, qual : Qualifiers]

\* the references the docstring of parse_edi_field (lines 117-126) gives
DocstringParts ==
    {[loop |-> "2010AA", tag |-> "NM1", elem |-> "09", sq |-> [sep |-> "", qual |-> ""], tail |-> ""],
     [loop |-> "2310B",  tag |-> "NM1", elem |-> "09", sq |-> [sep |-> "", qual |-> ""], tail |-> ""],
     [loop |-> "2010BA", tag |-> "NM1", elem |-> "09", sq |-> [sep |-> "", qual |-> ""], tail |-> ""],
     [loop |-> "2300", tag |-> "CLM", elem |-> "05-1", sq |-> [sep |-> "", qual |-> ""], tail |-> ""],
     [loop |-> "2300", tag |-> "DTP", elem |-> "03", sq |-> [sep |-> " - ", qual |-> "434"], tail |-> ""],
     [loop |-> "2400", tag |-> "DTP", elem |-> "03", sq |-> [sep |-> " - ", qual |-> "472"], tail |-> ""],
     [loop |-> "2300", tag |-> "HI", elem |-> "01-2", sq |-> [sep |-> " -- ", qual |-> "BK/ABK"], tail |-> ""],
     [loop |-> "2410", tag |-> "LIN", elem |-> "03", sq |-> [sep |-> " -- ", qual |-> "N4"], tail |-> ""]}

\* every loop with every tag, every tag with every qualifier, and the tails
\* behind a reference of each kind
PartsInputs ==
    DocstringParts
    \cup
    [loop : Loops, tag : Tags, elem : Elements,
     sq : NoQualifier \cup [sep : {" - "}, qual : {"DR"}], tail : {""}]
    \cup
    [loop : {"", "2300", "2410"},
     tag : {"HI", "hi", "DTP", "LIN", "NM1", "REF", "BHT"},
     elem : Elements, sq : AnyQualifier, tail : {""}]
    \cup
    [loop : {"", "2300", "2010AA"},
     tag : {"", "BHT", "CLM", "HI", "NM1", "DTP", "REF"},
     elem : Elements,
     sq : NoQualifier \cup [sep : {" -- ", " - "}, qual : {"BK/ABK", "434"}],
     tail : AnnotationTails \cup CombinedTails \cup {"  "}]
    \cup
    [loop : {"", "2300"},
     tag : {"HI", "DTP", "NM1"},
     elem : Elements, sq : NoQualifier \cup AnyQualifier, tail : SecondQualifierTails]

Compose(p) == p.loop \o p.tag \o p.elem \o p.sq.sep \o p.sq.qual \o p.tail

\* process_search_items has returned nothing (yet): its caller holds no tuple
NotReturned == <<>>

\* main() is not running. found is unbound until the first search assigns it
\* and is not read before; exit_code holds main()'s return value 0 or 1 as
\* "0" or "1", and None before main() has returned.
BatchIdle ==
    /\ mode = "word" /\ rows = <<>> /\ preview = FALSE /\ doc = ""
    /\ pc = "idle" /\ items = <<>> /\ item_i = 0 /\ found = FALSE
    /\ screenshots = <<>> /\ not_found = <<>> /\ was_quit = FALSE
    /\ exc = None /\ returned = NotReturned /\ exit_code = None
    /\ NOTEPAD_HWND = None /\ notepadRunning = FALSE /\ findDialog = FALSE
    /\ caret = 0 /\ keyQ = FALSE /\ failsafe = FALSE

InitParser ==
    /\ parts \in PartsInputs
    /\ field = Compose(parts)
    /\ called = "none"
    /\ ret = None
    /\ BatchIdle

CallParseEdiField ==
    /\ called = "none"
    /\ called' = "parse_edi_field"
    /\ ret' = edi_locals(field)
    /\ UNCHANGED <<field, parts, inputVars, batchVars, desktopVars>>

CallParseFieldCode ==
    /\ called = "none"
    /\ called' = "parse_field_code"
    /\ ret' = parse_field_code(field)
    /\ UNCHANGED <<field, parts, inputVars, batchVars, desktopVars>>

NextParser == CallParseEdiField \/ CallParseFieldCode

Spec == InitParser /\ [][NextParser]_vars
(***************************************************************************)
(* A run of main(): the loaders turn the input rows into items, then       *)
(* process_search_items searches each item in Notepad++ and takes a        *)
(* screenshot of the line the caret is on.                                 *)
(***************************************************************************)
MaxItems == 2

Modes == {"word", "list", "txt", "excel"}

\* input rows: the name is the 'GDF Field' cell (str() of an empty cell is "nan")
RawRows ==
    {[name |-> "Billing NPI", ref |-> "2010AANM109"],
     [name |-> "nan",         ref |-> "BHT03"],
     [name |-> "Sender",      ref |-> "ISA06"],
     [name |-> "Blank",       ref |-> ""],
     [name |-> "Spaces",      ref |-> "  "]}

Docs ==
    {"ISA*00*~BHT*0019*00~NM1*85*2*ACME~",
     "ISA*00*~BHT*0019*00~"}

SeqsUpTo(S, n) == UNION {[1..k -> S] : k \in 0..n}

\* lines 395-405 (load_from_excel), 419-432 (load_from_txt), 793-804 (main)
Loaded(m, rs) ==
    LET code(r) == IF m = "list" THEN r.ref ELSE str_strip(r.ref)
        Keep(r) ==
            CASE m = "excel" -> code(r) # "" /\ str_lower(code(r)) # "nan"
              [] m = "txt"   -> code(r) # "" /\ ~str_startswith(code(r), "#")
              [] m = "list"  -> TRUE
              [] m = "word"  -> r.ref # "" /\ code(r) # ""
        kept == SelectSeq(rs, Keep)
        ItemOf(r) ==
            IF m = "excel"
            THEN [screenshot_name |-> str_strip(r.name), field_code |-> code(r),
                  search_term |-> parse_edi_field(code(r))]
            ELSE [screenshot_name |-> code(r), field_code |-> code(r),
                  search_term |-> parse_field_code(code(r)).search_term]
    IN  [k \in 1..Len(kept) |-> ItemOf(kept[k])]

\* line 605: re.sub(r'[<>:"/\\|?*]', '_', filename), then ".png"
RECURSIVE safe_filename(_)
safe_filename(name) ==
    IF Len(name) = 0 THEN ".png"
    ELSE (IF Ch(name, 1) \in {"<", ">", ":", "\"", "/", "\\", "|", "?", "*"}
          THEN "_" ELSE Ch(name, 1))
         \o safe_filename(SubSeq(name, 2, Len(name)))

\* lines 711-715: the screenshot's file name
screenshot_filename(n, item) ==
    IF item.screenshot_name # "" /\ str_lower(item.screenshot_name) # "nan"
    THEN item.screenshot_name
    ELSE "search_" \o DigitStr(n) \o "_" \o item.field_code

NotParsing ==
    /\ parts = [loop |-> "", tag |-> "", elem |-> "", sq |-> [sep |-> "", qual |-> ""],
                tail |-> ""]
    /\ field = "" /\ called = "none" /\ ret = None

InitBatch ==
    /\ NotParsing
    /\ mode \in Modes
    /\ rows \in SeqsUpTo(RawRows, IF mode = "word" THEN 1 ELSE MaxItems)
    /\ preview \in BOOLEAN
    /\ doc \in Docs
    /\ pc = "main" /\ items = <<>> /\ item_i = 0 /\ found = FALSE
    /\ screenshots = <<>> /\ not_found = <<>> /\ was_quit = FALSE
    /\ exc = None /\ returned = NotReturned /\ exit_code = None
    /\ NOTEPAD_HWND = None /\ notepadRunning = FALSE /\ findDialog = FALSE
    /\ caret = 0 /\ keyQ = FALSE /\ failsafe = FALSE

\* lines 772-830: load the items; no items is an error, --preview stops here
MainLoadItems ==
    /\ pc = "main"
    /\ items' = Loaded(mode, rows)
    /\ IF items' = <<>> THEN pc' = "exit" /\ exit_code' = "1"
       ELSE IF preview THEN pc' = "exit" /\ exit_code' = "0"
       ELSE pc' = "open_notepad" /\ UNCHANGED exit_code
    /\ UNCHANGED <<parserVars, inputVars, desktopVars, item_i, found, screenshots,
                   not_found, was_quit, exc, returned>>

\* find_notepad_window (lines 472-483): the handle, or None when no visible
\* window has "Notepad++" in its title yet
WindowHandles == {None, "hwnd"}

\* a pyautogui call raises FailSafeException while the mouse is in a corner
Raise(e) ==
    /\ exc' = e
    /\ pc' = "finally"

\* line 680, lines 435-469: start Notepad++ on the file (before the try)
OpenNotepad ==
    /\ pc = "open_notepad"
    /\ notepadRunning' = TRUE
    /\ NOTEPAD_HWND' \in WindowHandles
    /\ pc' = "open_find_dialog"
    /\ screenshots' = <<>> /\ not_found' = <<>> /\ was_quit' = FALSE
    /\ item_i' = 1
    /\ UNCHANGED <<parserVars, inputVars, items, found, exc, returned, exit_code,
                   findDialog, caret, keyQ, failsafe>>

\* lines 486-500: ensure_notepad_focus looks the window up when the handle is None
FocusedHandles == IF NOTEPAD_HWND = None THEN WindowHandles ELSE {NOTEPAD_HWND}

\* lines 687-689 and 548-552: open the Find dialog before the loop
OpenFindDialog ==
    /\ pc = "open_find_dialog"
    /\ NOTEPAD_HWND' \in FocusedHandles
    /\ IF failsafe
       THEN Raise("FailSafeException") /\ UNCHANGED findDialog
       ELSE findDialog' = TRUE /\ pc' = "loop" /\ UNCHANGED exc
    /\ UNCHANGED <<parserVars, inputVars, items, item_i, found, screenshots, not_found,
                   was_quit, returned, exit_code, notepadRunning, caret, keyQ,
                   failsafe>>

\* lines 691-696 and 665-671: next item, or leave the loop at its end or on 'q'
LoopHead ==
    /\ pc = "loop"
    /\ IF item_i > Len(items)
       THEN pc' = "finally" /\ UNCHANGED <<was_quit, keyQ>>
       ELSE IF keyQ
       THEN pc' = "finally" /\ was_quit' = TRUE /\ keyQ' = FALSE
       ELSE pc' = "search" /\ UNCHANGED <<was_quit, keyQ>>
    /\ UNCHANGED <<parserVars, inputVars, items, item_i, found, screenshots, not_found,
                   exc, returned, exit_code, NOTEPAD_HWND, notepadRunning, findDialog,
                   caret, failsafe>>

\* lines 503-537 with dialog_open=True: paste the term into the Find dialog and
\* press Find Next; the caret goes to the match when there is one. It returns True.
search_and_highlight(search_text) == TRUE

SearchAndHighlight ==
    /\ pc = "search"
    /\ IF failsafe
       THEN Raise("FailSafeException") /\ UNCHANGED <<found, caret>>
       ELSE /\ found' = search_and_highlight(items[item_i].search_term)
            /\ caret' = IF findDialog /\ In(items[item_i].search_term, doc)
                        THEN str_find(doc, items[item_i].search_term)
                        ELSE caret
            /\ pc' = "close_find_dialog"
            /\ UNCHANGED exc
    /\ UNCHANGED <<parserVars, inputVars, items, item_i, screenshots, not_found,
                   was_quit, returned, exit_code, NOTEPAD_HWND, notepadRunning,
                   findDialog, keyQ, failsafe>>

\* lines 704-706 and 555-558: Escape closes the Find dialog
CloseFindDialog ==
    /\ pc = "close_find_dialog"
    /\ IF failsafe
       THEN Raise("FailSafeException") /\ UNCHANGED findDialog
       ELSE findDialog' = FALSE /\ pc' = "select_line" /\ UNCHANGED exc
    /\ UNCHANGED <<parserVars, inputVars, items, item_i, found, screenshots, not_found,
                   was_quit, returned, exit_code, NOTEPAD_HWND, notepadRunning, caret,
                   keyQ, failsafe>>

\* lines 708-709 and 540-545: Home, Shift+End
SelectCurrentLine ==
    /\ pc = "select_line"
    /\ IF failsafe
       THEN Raise("FailSafeException")
       ELSE pc' = "screenshot" /\ UNCHANGED exc
    /\ UNCHANGED <<parserVars, inputVars, items, item_i, found, screenshots, not_found,
                   was_quit, returned, exit_code, desktopVars>>

\* lines 711-721 and 599-643: save the screenshot (the save may fail with OSError),
\* append its path, and append the item to not_found when found is False
TakeScreenshot ==
    /\ pc = "screenshot"
    /\ \E saved \in BOOLEAN :
          IF saved
          THEN /\ screenshots' = Append(screenshots,
                      [path |-> safe_filename(screenshot_filename(item_i, items[item_i])),
                       caret |-> caret])
               /\ not_found' = IF ~found
                               THEN Append(not_found,
                                           <<items[item_i].field_code,
                                             items[item_i].search_term>>)
                               ELSE not_found
               /\ pc' = "reopen"
               /\ UNCHANGED exc
          ELSE Raise("OSError") /\ UNCHANGED <<screenshots, not_found>>
    /\ UNCHANGED <<parserVars, inputVars, items, item_i, found, was_quit, returned,
                   exit_code, desktopVars>>

\* ReopenFindDialog without lines 724-725: the Find dialog is never reopened
ReopenFindDialog_skipped ==
    /\ pc = "reopen"
    /\ item_i' = item_i + 1
    /\ pc' = "loop"
    /\ UNCHANGED <<parserVars, inputVars, items, found, screenshots, not_found,
                   was_quit, exc, returned, exit_code, desktopVars>>

\* lines 723-725: reopen the Find dialog unless this was the last item
ReopenFindDialog ==
    /\ pc = "reopen"
    /\ IF item_i < Len(items) /\ ~was_quit
       THEN /\ NOTEPAD_HWND' \in FocusedHandles
            /\ IF failsafe
               THEN Raise("FailSafeException") /\ UNCHANGED <<findDialog, item_i>>
               ELSE /\ findDialog' = TRUE
                    /\ item_i' = item_i + 1
                    /\ pc' = "loop"
                    /\ UNCHANGED exc
       ELSE /\ item_i' = item_i + 1
            /\ pc' = "loop"
            /\ UNCHANGED <<exc, findDialog, NOTEPAD_HWND>>
    /\ UNCHANGED <<parserVars, inputVars, items, found, screenshots, not_found,
                   was_quit, returned, exit_code, notepadRunning, caret, keyQ,
                   failsafe>>

\* lines 729-736: Escape, whatever it raises is swallowed
FinallyEscape ==
    /\ pc = "finally"
    /\ findDialog' = IF failsafe THEN findDialog ELSE FALSE
    /\ pc' = "close_notepad"
    /\ UNCHANGED <<parserVars, inputVars, items, item_i, found, screenshots, not_found,
                   was_quit, exc, returned, exit_code, NOTEPAD_HWND, notepadRunning,
                   caret, keyQ, failsafe>>

\* lines 737 and 646-662: Alt+F4, 'n', NOTEPAD_HWND = None; then the function
\* returns its tuple, or the exception of the try block propagates
close_notepad_plus ==
    /\ pc = "close_notepad"
    /\ IF failsafe
       THEN /\ exc' = "FailSafeException"
            /\ UNCHANGED <<NOTEPAD_HWND, notepadRunning, findDialog, returned>>
       ELSE /\ NOTEPAD_HWND' = None
            /\ notepadRunning' = FALSE
            /\ findDialog' = FALSE
            /\ returned' = IF exc = None
                           THEN [screenshots |-> screenshots, not_found |-> not_found,
                                 was_quit |-> was_quit]
                           ELSE NotReturned
            /\ UNCHANGED exc
    /\ pc' = "report"
    /\ UNCHANGED <<parserVars, inputVars, items, item_i, found, screenshots, not_found,
                   was_quit, exit_code, caret, keyQ, failsafe>>

\* lines 835-872: report and return 0; an exception ends main() with a traceback
MainReport ==
    /\ pc = "report"
    /\ exit_code' = IF exc = None THEN "0" ELSE "1"
    /\ pc' = "exit"
    /\ UNCHANGED <<parserVars, inputVars, items, item_i, found, screenshots, not_found,
                   was_quit, exc, returned, desktopVars>>

Processing == pc \notin {"idle", "main", "report", "exit"}

\* the user presses 'q' while the batch runs
PressQ ==
    /\ Processing
    /\ ~keyQ
    /\ keyQ' = TRUE
    /\ UNCHANGED <<parserVars, inputVars, batchVars, NOTEPAD_HWND, notepadRunning,
                   findDialog, caret, failsafe>>

\* the user moves the mouse into a screen corner, or out of it
MoveMouse ==
    /\ Processing
    /\ failsafe' = ~failsafe
    /\ UNCHANGED <<parserVars, inputVars, batchVars, NOTEPAD_HWND, notepadRunning,
                   findDialog, caret, keyQ>>

NextBatch ==
    \/ MainLoadItems
    \/ OpenNotepad
    \/ OpenFindDialog
    \/ LoopHead
    \/ SearchAndHighlight
    \/ CloseFindDialog
    \/ SelectCurrentLine
    \/ TakeScreenshot
    \/ ReopenFindDialog
    \/ FinallyEscape
    \/ close_notepad_plus
    \/ MainReport
    \/ PressQ
    \/ MoveMouse

SpecBatch == InitBatch /\ [][NextBatch]_vars

\* the steps of process_search_items and of main() after it: one thread runs
\* them in order, none of them waits for the user, and each moves pc
ProgramStep ==
    \/ OpenNotepad
    \/ OpenFindDialog
    \/ LoopHead
    \/ SearchAndHighlight
    \/ CloseFindDialog
    \/ SelectCurrentLine
    \/ TakeScreenshot
    \/ ReopenFindDialog
    \/ FinallyEscape
    \/ close_notepad_plus
    \/ MainReport

\* the program keeps running until main() ends, whatever the user does
FairSpecBatch == InitBatch /\ [][NextBatch]_vars /\ WF_pc(ProgramStep)

(***************************************************************************)
(* Claims about the parsers                                                *)
(***************************************************************************)
EdiReturned == called = "parse_edi_field"
CodeReturned == called = "parse_field_code"

\* the NM1 pattern the loop-id prefix of a reference selects
NM1PatternOfPrefix(reference) ==
    LET u == str_upper(str_strip(reference))
    IN  CASE str_startswith(u, "2010AA") -> "NM1*85*"
          [] str_startswith(u, "2010AB") -> "NM1*87*"
          [] str_startswith(u, "2010AC") -> "NM1*PE*"
          [] str_startswith(u, "2010BA") -> "NM1*IL*"
          [] str_startswith(u, "2010BB") -> "NM1*PR*"
          [] str_startswith(u, "2010CA") -> "NM1*QC*"
          [] str_startswith(u, "2310A")  -> "NM1*DN*"
          [] str_startswith(u, "2310B")  -> "NM1*82*"
          [] str_startswith(u, "2420")   -> "NM1*82*"
          [] str_startswith(u, "2310C")  -> "NM1*77*"
          [] str_startswith(u, "2310D")  -> "NM1*DQ*"
          [] OTHER -> "NM1*"

\* C1: whenever parse_edi_field classifies a reference as NM1, the pattern it
\* returns is the one the loop-id prefix of the reference selects (2010AA -> 85,
\* 2010AB -> 87, 2010AC -> PE, 2010BA -> IL, 2010BB -> PR, 2010CA -> QC,
\* 2310A -> DN, 2310B and 2420 -> 82, 2310C -> 77, 2310D -> DQ), and bare NM1*
\* for loop 2330, any other loop and no loop.
C1_NM1PatternByLoop ==
    (EdiReturned /\ ret.segment = "NM1")
        => ret.search_term = NM1PatternOfPrefix(field)

\* C1 witness: "2010BANM109" was parsed and gave NM1*IL*.
C1_Witness ==
    /\ EdiReturned
    /\ field = "2010BANM109"
    /\ ret.segment = "NM1"
    /\ ret.loop_id = "2010BA"
    /\ ret.search_term = "NM1*IL*"

\* the last "/"-separated piece of a qualifier ("" for no qualifier)
LastSlashPiece(qualifier) ==
    IF qualifier = None THEN ""
    ELSE LET ps == str_split(qualifier, "/") IN ps[Len(ps)]

LeadingDigits(qualifier) == SubSeq(qualifier, 1, RunLen(qualifier, 1, DigitChars))

\* C3: for a DTP reference, a qualifier that is or contains RD8 gives
\* DTP*<leading digits>*RD8; otherwise a qualifier that begins with digits
\* gives DTP*<digits>*; otherwise the pattern is bare DTP*.
C3_DTPPattern ==
    (EdiReturned /\ ret.segment = "DTP")
        => ret.search_term =
              IF Falsy(ret.qualifier) THEN "DTP*"
              ELSE IF In("RD8", str_upper(ret.qualifier))
              THEN "DTP*" \o LeadingDigits(ret.qualifier) \o "*RD8"
              ELSE IF LeadingDigits(ret.qualifier) # ""
              THEN "DTP*" \o LeadingDigits(ret.qualifier) \o "*"
              ELSE "DTP*"

\* the tags of the known-numbered-segment set that have three characters
NumberedTags3 == {"NM1", "SV1", "SV2", "SV3", "SV4", "SV5", "ISA", "IEA", "TA1"}

\* the reference is a tag of NumberedTags3 followed by exactly two digits
TagAndTwoDigits ==
    /\ parts.tag \in NumberedTags3
    /\ Len(parts.elem) = 2
    /\ field = parts.tag \o parts.elem

\* C4: a token made of a 3-letter known numbered tag and exactly 2 digits is
\* classified as that tag on both paths: parse_edi_field returns a pattern
\* that starts with tag*, parse_field_code returns the tag as its segment.
C4_NumberedTagTwoDigits ==
    TagAndTwoDigits =>
        /\ EdiReturned => str_startswith(ret.search_term, parts.tag \o "*")
        /\ CodeReturned => ret.segment = parts.tag

Range(seq) == {seq[i] : i \in 1..Len(seq)}

\* the known-segment registry: every tag list of the two parsers
SegmentRegistry ==
    Range(NUMBERED_SEGMENTS) \cup Range(NUMBERED_SEGMENTS_3)
        \cup Range(SEGMENTS_2) \cup Range(SEGMENTS_3)

\* C5: every pattern either parser returns begins with a segment id of the
\* known-segment registry immediately followed by "*".
C5_PatternStartsWithSegment ==
    (EdiReturned \/ CodeReturned)
        => \E seg \in SegmentRegistry : str_startswith(ret.search_term, seg \o "*")

\* the reference without its tail
WithoutTail == Compose([parts EXCEPT !.tail = ""])

\* the reference is a tagged element (tag and element number) followed by a tail
TaggedElementWith(tails) ==
    parts.tag # "" /\ parts.elem # "" /\ parts.tail \in tails

\* C9: a parenthetical suffix or a trailing "when ..." clause does not change
\* the pattern: parse_edi_field(r + " " + a) = parse_edi_field(r).
C9_AnnotationIgnored ==
    (EdiReturned /\ TaggedElementWith(AnnotationTails))
        => ret.search_term = parse_edi_field(WithoutTail)

\* C10: of a combined reference joined by "+" or " + ", parse_edi_field keeps
\* only the first member: its result is that of the first member alone.
C10_FirstMemberOnly ==
    (EdiReturned /\ TaggedElementWith(CombinedTails))
        => ret.search_term = parse_edi_field(WithoutTail)

\* C10 for the separator " + " alone, the one line 134 splits on: it holds there
C10_SpacedSeparatorOnly ==
    (EdiReturned /\ TaggedElementWith({t \in CombinedTails : str_startswith(t, " + ")}))
        => ret.search_term = parse_edi_field(WithoutTail)

\* C11: qualifier extraction is idempotent: the qualifier-extraction step,
\* applied to the field text parse_edi_field produced for a reference, extracts
\* no further qualifier and leaves that field text unchanged.
C11_QualifierExtractionIdempotent ==
    EdiReturned =>
        /\ extract_qualifiers(ret.edi_field).qualifier_type = None
        /\ extract_qualifiers(ret.edi_field).edi_field = ret.edi_field

\* the REF pattern of the dispatch table: REF*EI* in loop 2010AA, REF* elsewhere
REFPatternOfLoop(loop_id) == IF loop_id = "2010AA" THEN "REF*EI*" ELSE "REF*"

LoopTagElement == parts.loop # "" /\ parts.tag # "" /\ parts.elem # ""

\* C13: for a reference made of a loop-id prefix immediately followed by a
\* segment tag and an element number, the loop_id parse_edi_field extracts is
\* exactly the loop prefix and has no letter of the segment tag in it:
\* "2300HI01-2 -- BK/ABK" gives 2300, "2010BANM109" gives 2010BA.
C13_LoopIdIsLoopPrefix ==
    (EdiReturned /\ LoopTagElement) => ret.loop_id = str_upper(parts.loop)

\* the reference is a token of letters and digits, optionally followed by
\* "-digits", with no tag of a known-segment list in it
GenericToken ==
    /\ parts.tag # "" /\ AllIn(parts.tag, AlphaChars)
    /\ parts.elem # ""
    /\ field = parts.tag \o parts.elem
    /\ \A seg \in SegmentRegistry : ~In(seg, str_upper(field))

\* C14: for a token of the generic shape letters + digits, optionally followed
\* by "-digits", that matches no known-segment list (PLB03, CLP01-2), the
\* segment is exactly the leading run of letters: parse_edi_field and
\* parse_field_code both return <letters>* for it.
C14_GenericSegmentIsLetterRun ==
    GenericToken =>
        /\ (EdiReturned \/ CodeReturned) => ret.segment = str_upper(parts.tag)
        /\ (EdiReturned \/ CodeReturned) => ret.search_term = str_upper(parts.tag) \o "*"

(***************************************************************************)
(* Claims about main() and process_search_items                            *)
(***************************************************************************)
\* the segment id of a search term with its delimiter: the term up to its first "*"
SegmentStar(term) == SubSeq(term, 1, str_find(term, "*"))

\* the row's segment does not occur in the opened document
SegmentAbsent(item) == ~In(SegmentStar(item.search_term), doc)

\* C6: a row whose segment has no occurrence in the opened document gets False
\* from search_and_highlight, and after the batch it is in the returned
\* not_found list with its reference text and searched pattern.
C6_AbsentRowsAreNotFound ==
    /\ (pc = "close_find_dialog" /\ SegmentAbsent(items[item_i])) => found = FALSE
    /\ returned # NotReturned =>
          \A k \in 1..Len(returned.screenshots) :
              SegmentAbsent(items[k]) =>
                  \E n \in 1..Len(returned.not_found) :
                      returned.not_found[n] = <<items[k].field_code, items[k].search_term>>

\* C7: an empty or whitespace-only raw reference is skipped on every input
\* path: no item is made of it, and no pattern "*" is produced for it.
C7_BlankReferenceSkipped ==
    \A k \in 1..Len(items) :
        /\ str_strip(items[k].field_code) # ""
        /\ items[k].search_term # "*"

\* the steps of the loop body that work on item i
RowSteps == {"search", "close_find_dialog", "select_line", "screenshot"}

\* C8: a failure in the search, line selection or screenshot of item i is local
\* to that row: no step of a row raises out of the loop, so the remaining rows
\* are processed and the results returned.
C8_RowFailureIsLocal ==
    [][(pc \in RowSteps) => (exc' = None /\ pc' # "finally")]_vars

\* the Escape of the finally block was sent and close_notepad_plus has closed
\* the editor and reset the handle
EditorClosed == pc \in {"report", "exit"} /\ ~notepadRunning /\ NOTEPAD_HWND = None

\* C15: once process_search_items has opened Notepad++, every way of leaving
\* it (all items done, 'q' pressed, an exception in any step) eventually sends
\* Escape and then calls close_notepad_plus, which closes the editor and
\* resets NOTEPAD_HWND to None: no exit path leaves the editor open.
C15_EveryExitClosesEditor == notepadRunning ~> EditorClosed

\* the steps after the loop: the finally block, the return, main()'s report
AfterLoop == {"finally", "close_notepad", "report", "exit"}

\* process_search_items has returned its tuple to main()
HasReturned == returned # NotReturned

\* C16: whatever the batch length and wherever 'q' is pressed, the Find dialog
\* is open when a search term is pasted and Find Next pressed, and closed when
\* the line is selected and the screenshot taken; one screenshot is recorded
\* per item processed, and once the quit is seen no further item is searched.
C16_DialogAlternatesOneShotPerItem ==
    /\ pc = "search" => findDialog
    /\ pc \in {"select_line", "screenshot"} => ~findDialog
    /\ pc \in RowSteps \cup {"loop"} => Len(screenshots) = item_i - 1
    /\ pc = "reopen" => Len(screenshots) = item_i
    /\ was_quit => pc \in AfterLoop
    /\ HasReturned =>
          /\ Len(returned.screenshots) = item_i - 1
          /\ returned.was_quit => item_i <= Len(items)
          /\ ~returned.was_quit => item_i = Len(items) + 1

\* C16 witness: a batch of two items was quit after its first item: one
\* screenshot was recorded and the second item was never searched.
C16_Witness ==
    /\ HasReturned
    /\ returned.was_quit
    /\ Len(items) = 2
    /\ item_i = 2
    /\ Len(returned.screenshots) = 1
    /\ ~findDialog
====
